---- MODULE Spec2Model ----
(***************************************************************************)
(* Model of src/app.py: the in-memory item catalogue (Item, Inventory),    *)
(* the map/filter helpers, the simulated pricing lookups and the Flask     *)
(* routes built on them.                                                   *)
(*                                                                         *)
(* Representation.                                                         *)
(*  - A Python str is a sequence of one-character strings, so that         *)
(*    str.strip(), str.lower() and float(str) are computed character by    *)
(*    character.                                                           *)
(*  - A Python float that is a sum of money, a tax rate or a percentage is *)
(*    an integer number of hundredths (9.99 is 999, 0.13 is 13, 15.0       *)
(*    percent is 1500).  round(x, 2) is the hundredth nearest to the exact *)
(*    value; where the exact value lies midway between two hundredths the  *)
(*    double Python rounds lies to one side of it or the other, and either *)
(*    hundredth is a possible result.                                      *)
(*  - A JSON / form value is a record [t, s, n]: t is "none" (key absent   *)
(*    or null), "str" (text s) or "num" (number n, in hundredths).         *)
(***************************************************************************)
EXTENDS Integers, Sequences, FiniteSets, TLC

VARIABLES
    items,      \* inventory._items : sequence of Item records
    id_seq,     \* next value of the module-level counter _id_seq
    request,    \* the request whose handler started or answered last
    response,   \* the response to it, NoResponse while it is awaited
    qpc,        \* async_quotes: "idle" or "running"
    qItems,     \* async_quotes: the list inventory.all() returned when it started
    qTax,       \* per task: result of fetch_tax_rate, or Pending
    qDisc,      \* per task: result of fetch_dynamic_discount, or Pending
    qRec        \* per task: result of compute_adjusted_price, or NoRec

vars == <<items, id_seq, request, response, qpc, qItems, qTax, qDisc, qRec>>

-----------------------------------------------------------------------------
(* Bounds of the model.                                                    *)

\* Number of items POST /items may create in a behaviour of Spec.
MaxCreated == 2

\* Number of items POST /items may create in a behaviour of SpecQuotes.
MaxQuoteCreated == 1

-----------------------------------------------------------------------------
(* Text.                                                                   *)

Upper == <<"A", "B", "C", "D", "E", "F", "G", "H", "I", "J", "K", "L", "M",
           "N", "O", "P", "Q", "R", "S", "T", "U", "V", "W", "X", "Y", "Z">>

Lower == <<"a", "b", "c", "d", "e", "f", "g", "h", "i", "j", "k", "l", "m",
           "n", "o", "p", "q", "r", "s", "t", "u", "v", "w", "x", "y", "z">>

Digits == <<"0", "1", "2", "3", "4", "5", "6", "7", "8", "9">>

Whitespace == {" ", "\t", "\n", "\r"}

\* One character of str.lower().
LowerChar(c) ==
    IF \E k \in 1..Len(Upper) : Upper[k] = c
    THEN Lower[CHOOSE k \in 1..Len(Upper) : Upper[k] = c]
    ELSE c

\* str.lower()
lower(s) == [k \in 1..Len(s) |-> LowerChar(s[k])]

\* str.strip(): drop the leading and the trailing whitespace.
strip(s) ==
    LET keep == {k \in 1..Len(s) : s[k] \notin Whitespace}
    IN  IF keep = {} THEN <<>>
        ELSE LET first == CHOOSE k \in keep : \A j \in keep : k <= j
                 last  == CHOOSE k \in keep : \A j \in keep : j <= k
             IN  SubSeq(s, first, last)

-----------------------------------------------------------------------------
(* Numbers.                                                                *)

IsDigit(c) == \E k \in 1..Len(Digits) : Digits[k] = c

DigitVal(c) == (CHOOSE k \in 1..Len(Digits) : Digits[k] = c) - 1

RECURSIVE DigitsVal(_)
\* The natural number a sequence of decimal digits denotes (0 for none).
DigitsVal(ds) ==
    IF ds = <<>> THEN 0
    ELSE 10 * DigitsVal(SubSeq(ds, 1, Len(ds) - 1)) + DigitVal(ds[Len(ds)])

\* float(str) accepts, after stripping whitespace: an optional sign, digits,
\* and an optional point followed by digits, with a digit somewhere.  (The
\* exponent, "inf", "nan" and "_" forms are outside the alphabet of the
\* inputs below, and so are fractions of more than two digits.)
IsDecimal(s) ==
    LET t     == strip(s)
        body  == IF t # <<>> /\ t[1] \in {"+", "-"} THEN Tail(t) ELSE t
        dots  == {k \in 1..Len(body) : body[k] = "."}
    IN  /\ Cardinality(dots) <= 1
        /\ \A k \in 1..Len(body) : IsDigit(body[k]) \/ body[k] = "."
        /\ \E k \in 1..Len(body) : IsDigit(body[k])
        /\ \A d \in dots : Len(body) - d <= 2

\* The value of float(str), in hundredths, of a string IsDecimal accepts.
DecimalVal(s) ==
    LET t     == strip(s)
        neg   == t # <<>> /\ t[1] = "-"
        body  == IF t # <<>> /\ t[1] \in {"+", "-"} THEN Tail(t) ELSE t
        dots  == {k \in 1..Len(body) : body[k] = "."}
        dot   == IF dots = {} THEN Len(body) + 1 ELSE CHOOSE d \in dots : TRUE
        whole == SubSeq(body, 1, dot - 1)
        frac  == SubSeq(body, dot + 1, Len(body))
        fracH == IF Len(frac) = 0 THEN 0
                 ELSE IF Len(frac) = 1 THEN 10 * DigitsVal(frac)
                 ELSE DigitsVal(frac)
        mag   == 100 * DigitsVal(whole) + fracH
    IN  IF neg THEN 0 - mag ELSE mag

\* round(x, 2) of x = n / d hundredths: the results it can have.  The nearest
\* integer to n / d; either neighbour when n / d lies midway, where the
\* result depends on the double that stands for x.
Rounded(n, d) ==
    LET q == n \div d
        r == n % d
    IN  IF 2 * r < d THEN {q}
        ELSE IF 2 * r > d THEN {q + 1}
        ELSE {q, q + 1}

-----------------------------------------------------------------------------
(* Values of a JSON body, a form body or a query string.                   *)

None == [t |-> "none", s |-> <<>>, n |-> 0]

Str(s) == [t |-> "str", s |-> s, n |-> 0]

Num(n) == [t |-> "num", s |-> <<>>, n |-> n]

\* Python truth value of a value: None, "" and 0 are false.
Truthy(v) ==
    \/ v.t = "str" /\ v.s # <<>>
    \/ v.t = "num" /\ v.n # 0

\* float(v) raises ValueError on text that is no number (TypeError on None).
FloatRaises(v) ==
    \/ v.t = "none"
    \/ v.t = "str" /\ ~IsDecimal(v.s)

\* float(v), in hundredths, where it does not raise.
Float(v) == IF v.t = "num" THEN v.n ELSE DecimalVal(v.s)

-----------------------------------------------------------------------------
(* Domain model.                                                           *)

\* Item(name, price, category) with the id the default factory drew.
Item(name, price, category, id) ==
    [id |-> id, name |-> name, price |-> price, category |-> category]

\* Item.to_dict
to_dict(i) ==
    [id |-> i.id, name |-> i.name, price |-> i.price, category |-> i.category]

\* Item.apply_discount: percent in hundredths of a percent; the results it
\* can have.
apply_discount(i, percent) ==
    LET lo == IF percent < 10000 THEN percent ELSE 10000
        p  == IF lo > 0 THEN lo ELSE 0
    IN  Rounded(i.price * (10000 - p), 10000)

\* Inventory.add
add(its, i) == Append(its, i)

\* Inventory.all
all(its) == [k \in 1..Len(its) |-> its[k]]

\* Inventory.by_category
by_category(its, category) ==
    LET Pass(i) == lower(i.category) = lower(category)
    IN  SelectSeq(its, Pass)

\* Inventory.expensive
expensive(its, min_price) ==
    LET Pass(i) == i.price >= min_price
    IN  SelectSeq(its, Pass)

\* The seed data, in the order of construction.
Seed ==
    << [name |-> <<"U", "S", "B", "-", "C", " ", "C", "a", "b", "l", "e">>,
        price |-> 999,
        category |-> <<"e", "l", "e", "c", "t", "r", "o", "n", "i", "c", "s">>],
       [name |-> <<"W", "i", "r", "e", "l", "e", "s", "s", " ", "M", "o", "u", "s", "e">>,
        price |-> 2450,
        category |-> <<"e", "l", "e", "c", "t", "r", "o", "n", "i", "c", "s">>],
       [name |-> <<"N", "o", "t", "e", "b", "o", "o", "k", " ", "(", "A", "5", ")">>,
        price |-> 325,
        category |-> <<"s", "t", "a", "t", "i", "o", "n", "e", "r", "y">>],
       [name |-> <<"O", "f", "f", "i", "c", "e", " ", "C", "h", "a", "i", "r">>,
        price |-> 18900,
        category |-> <<"f", "u", "r", "n", "i", "t", "u", "r", "e">>],
       [name |-> <<"S", "t", "a", "n", "d", "i", "n", "g", " ", "D", "e", "s", "k">>,
        price |-> 39999,
        category |-> <<"f", "u", "r", "n", "i", "t", "u", "r", "e">>] >>

\* The first value of _id_seq = count(1).
FirstId == 1

\* inventory = Inventory([...]): the k-th seed item draws the k-th id.
SeedInventory ==
    [k \in 1..Len(Seed) |->
        Item(Seed[k].name, Seed[k].price, Seed[k].category, FirstId + k - 1)]

-----------------------------------------------------------------------------
(* Functional helpers.                                                     *)

\* items_to_dicts
items_to_dicts(its) == [k \in 1..Len(its) |-> to_dict(its[k])]

\* A filter_items that compares the categories as they are written.
filter_items_case_sensitive(its, min_price, category) ==
    LET Pass(i) ==
            /\ min_price.t # "none" => i.price >= Float(min_price)
            /\ category.t # "none" => i.category = category.s
    IN  IF min_price.t = "none" /\ category.t = "none"
        THEN all(its)
        ELSE SelectSeq(its, Pass)

\* filter_items: min_price and category are values, None when not supplied;
\* min_price is a number when supplied.
filter_items(its, min_price, category) ==
    LET Pass(i) ==
            /\ min_price.t # "none" => i.price >= Float(min_price)
            /\ category.t # "none" => lower(i.category) = lower(category.s)
    IN  IF min_price.t = "none" /\ category.t = "none"
        THEN all(its)
        ELSE SelectSeq(its, Pass)

-----------------------------------------------------------------------------
(* Simulated pricing service.                                              *)

\* The default of the tax table's .get(): 0.07.
DefaultTaxRate == 7

\* A fetch_tax_rate that looks the category up as it is written.
fetch_tax_rate_case_sensitive(category) ==
    IF category = <<"e", "l", "e", "c", "t", "r", "o", "n", "i", "c", "s">> THEN 13
    ELSE IF category = <<"f", "u", "r", "n", "i", "t", "u", "r", "e">> THEN 8
    ELSE IF category = <<"s", "t", "a", "t", "i", "o", "n", "e", "r", "y">> THEN 5
    ELSE DefaultTaxRate

\* fetch_tax_rate, after its sleep: the rate, in hundredths.
fetch_tax_rate(category) ==
    LET c == lower(category)
    IN  IF c = <<"e", "l", "e", "c", "t", "r", "o", "n", "i", "c", "s">> THEN 13
        ELSE IF c = <<"f", "u", "r", "n", "i", "t", "u", "r", "e">> THEN 8
        ELSE IF c = <<"s", "t", "a", "t", "i", "o", "n", "e", "r", "y">> THEN 5
        ELSE DefaultTaxRate

\* The upper end of random.uniform(0, 15), in hundredths of a percent.
MaxDiscount == 1500

\* compute_adjusted_price, after its gather: the records it can return.
compute_adjusted_price(i, tax_rate, discount_pct) ==
    {[item             |-> to_dict(i),
      tax_rate         |-> tax_rate,
      discount_percent |-> discount_pct,
      taxed_price      |-> taxed,
      final_price      |-> final_price] :
        taxed \in Rounded(i.price * (100 + tax_rate), 100),
        final_price \in UNION {Rounded(discounted * (100 + tax_rate), 100) :
                                  discounted \in apply_discount(i, discount_pct)}}

\* A gather that hands the results back last child first.
gather_reversed(results) ==
    [k \in 1..Len(results) |-> results[Len(results) + 1 - k][1]]

\* asyncio.gather: the children's results, in the order of the children.
gather(results) == [k \in 1..Len(results) |-> results[k][1]]

-----------------------------------------------------------------------------
(* Requests and responses.                                                 *)

\* A mapping with the keys create_item reads; None for a key it lacks.
Mapping(name, price, category) ==
    [name |-> name, price |-> price, category |-> category]

EmptyMapping == Mapping(None, None, None)

\* What request.get_json(force=True, silent=True) returns: None (no JSON in
\* the body), a JSON array, or a JSON object.
NoJson == [t |-> "none", map |-> EmptyMapping]

JsonArray == [t |-> "array", map |-> EmptyMapping]

JsonObject(m) == [t |-> "object", map |-> m]

\* Python truth value of get_json's result: None and {} are false.
JsonTruthy(j) ==
    \/ j.t = "array"
    \/ j.t = "object" /\ j.map # EmptyMapping

Request(route, min, category, json, form) ==
    [route |-> route, min |-> min, category |-> category,
     json |-> json, form |-> form]

Get(route, min, category) == Request(route, min, category, NoJson, EmptyMapping)

Post(json, form) == Request("POST /items", None, None, json, form)

Response(status, kind, error, its, quotes) ==
    [status |-> status, kind |-> kind, error |-> error,
     items |-> its, quotes |-> quotes]

\* jsonify(list of dicts)
JsonList(its) == Response(200, "list", "", its, <<>>)

\* jsonify({"error": msg}), 400
JsonError(msg) == Response(400, "error", msg, <<>>, <<>>)

\* Flask's answer to an exception no handler catches.
ServerError == Response(500, "html", "", <<>>, <<>>)

NoResponse == Response(0, "none", "", <<>>, <<>>)

InvalidPayload == "Invalid payload. Expect name, price, category"

PriceNotNumber == "Price must be a number"

-----------------------------------------------------------------------------
(* Routes.                                                                 *)

Frame == UNCHANGED <<qpc, qItems, qTax, qDisc, qRec>>

\* GET /
index ==
    /\ request' = Get("GET /", None, None)
    /\ response' = Response(200, "html", "", <<>>, <<>>)
    /\ UNCHANGED <<items, id_seq>>
    /\ Frame

\* GET /items
get_items ==
    /\ request' = Get("GET /items", None, None)
    /\ response' = JsonList(items_to_dicts(all(items)))
    /\ UNCHANGED <<items, id_seq>>
    /\ Frame

\* A get_expensive that keeps the filtered list as the inventory.
get_expensive_in_place(min) ==
    LET min_price == IF min.t = "none" THEN 10000
                     ELSE IF FloatRaises(min) THEN 10000
                     ELSE Float(min)
    IN  /\ request' = Get("GET /items/expensive", min, None)
        /\ items' = expensive(items, min_price)
        /\ response' = JsonList(items_to_dicts(items'))
        /\ UNCHANGED id_seq
        /\ Frame

\* GET /items/expensive?min=...
get_expensive(min) ==
    LET min_price == IF min.t = "none" THEN 10000
                     ELSE IF FloatRaises(min) THEN 10000
                     ELSE Float(min)
    IN  /\ request' = Get("GET /items/expensive", min, None)
        /\ response' = JsonList(items_to_dicts(expensive(items, min_price)))
        /\ UNCHANGED <<items, id_seq>>
        /\ Frame

\* GET /items/search?min=...&category=...
search_items(min, category) ==
    /\ request' = Get("GET /items/search", min, category)
    /\ response' =
         IF min.t # "none" /\ FloatRaises(min)
         THEN ServerError
         ELSE LET min_price_f == IF min.t # "none" THEN Num(Float(min)) ELSE None
              IN  JsonList(items_to_dicts(
                      filter_items(all(items), min_price_f, category)))
    /\ UNCHANGED <<items, id_seq>>
    /\ Frame

\* A create_item that reports a price that is no number as an invalid payload.
CreateOutcome_one_message(json, form) ==
    LET data == IF JsonTruthy(json) THEN json.map ELSE form
    IN  IF JsonTruthy(json) /\ json.t # "object" THEN "no .get"
        ELSE IF data.name.t # "str" \/ ~Truthy(data.category) \/ ~Truthy(data.price)
                \/ FloatRaises(data.price)
             THEN "invalid"
        ELSE IF data.category.t # "str" THEN "no .strip"
        ELSE "created"

\* The branch of create_item a body takes.
CreateOutcome(json, form) ==
    LET data == IF JsonTruthy(json) THEN json.map ELSE form
    IN  IF JsonTruthy(json) /\ json.t # "object" THEN "no .get"
        ELSE IF data.name.t # "str" \/ ~Truthy(data.category) \/ ~Truthy(data.price)
             THEN "invalid"
        ELSE IF FloatRaises(data.price) THEN "not a number"
        ELSE IF data.category.t # "str" THEN "no .strip"
        ELSE "created"

\* An Item built, and its id drawn, before the price is converted.
NextId_before_float(outcome, seq) ==
    IF outcome \in {"created", "not a number", "no .strip"} THEN seq + 1 ELSE seq

\* _id_seq after create_item: the default factory of Item.id runs next(_id_seq)
\* when Item(...) is constructed, which only the last branch does.
NextId(outcome, seq) == IF outcome = "created" THEN seq + 1 ELSE seq

\* POST /items
create_item(json, form) ==
    LET data    == IF JsonTruthy(json) THEN json.map ELSE form
        outcome == CreateOutcome(json, form)
    IN  /\ request' = Post(json, form)
        /\ Frame
        /\ id_seq' = NextId(outcome, id_seq)
        /\ IF outcome = "created"
           THEN LET item == Item(strip(data.name.s), Float(data.price),
                                 strip(data.category.s), id_seq)
                IN  /\ items' = add(items, item)
                    /\ response' = Response(201, "item", "", <<to_dict(item)>>, <<>>)
           ELSE /\ UNCHANGED items
                /\ response' =
                     IF outcome = "invalid" THEN JsonError(InvalidPayload)
                     ELSE IF outcome = "not a number" THEN JsonError(PriceNotNumber)
                     ELSE ServerError

-----------------------------------------------------------------------------
(* GET /async/quotes: one compute_adjusted_price task per item of the      *)
(* snapshot, each awaiting its two lookups; the event loop resumes them in *)
(* any order.  One such request is in flight at a time.                    *)

\* async_quotes up to its await: the tasks are created over inventory.all().
async_quotes_start ==
    /\ qpc = "idle"
    /\ qpc' = "running"
    /\ request' = Get("GET /async/quotes", None, None)
    /\ qItems' = all(items)
    /\ qTax' = [k \in 1..Len(items) |-> <<>>]
    /\ qDisc' = [k \in 1..Len(items) |-> <<>>]
    /\ qRec' = [k \in 1..Len(items) |-> <<>>]
    /\ response' = NoResponse
    /\ UNCHANGED <<items, id_seq>>

\* The sleep of task k's fetch_tax_rate ends and it returns.
tax_rate_returns(k) ==
    /\ qpc = "running"
    /\ qTax[k] = <<>>
    /\ qTax' = [qTax EXCEPT ![k] = <<fetch_tax_rate(qItems[k].category)>>]
    /\ UNCHANGED <<items, id_seq, request, response, qpc, qItems, qDisc, qRec>>

\* The sleep of task k's fetch_dynamic_discount ends and it returns d.
dynamic_discount_returns(k, d) ==
    /\ qpc = "running"
    /\ qDisc[k] = <<>>
    /\ qDisc' = [qDisc EXCEPT ![k] = <<d>>]
    /\ UNCHANGED <<items, id_seq, request, response, qpc, qItems, qTax, qRec>>

\* Task k's gather has both results: compute_adjusted_price resumes and returns.
adjusted_price_returns(k) ==
    /\ qpc = "running"
    /\ qRec[k] = <<>>
    /\ qTax[k] # <<>>
    /\ qDisc[k] # <<>>
    /\ \E rec \in compute_adjusted_price(qItems[k], qTax[k][1], qDisc[k][1]) :
          qRec' = [qRec EXCEPT ![k] = <<rec>>]
    /\ UNCHANGED <<items, id_seq, request, response, qpc, qItems, qTax, qDisc>>

\* Every task is done: async_quotes resumes and answers.
async_quotes_returns ==
    /\ qpc = "running"
    /\ \A k \in 1..Len(qItems) : qRec[k] # <<>>
    /\ request' = Get("GET /async/quotes", None, None)
    /\ response' = Response(200, "quotes", "", <<>>, gather(qRec))
    /\ qpc' = "idle"
    /\ qItems' = <<>>
    /\ qTax' = <<>>
    /\ qDisc' = <<>>
    /\ qRec' = <<>>
    /\ UNCHANGED <<items, id_seq>>

-----------------------------------------------------------------------------
(* Inputs.                                                                 *)

Pen == <<" ", "P", "e", "n", " ">>

Furniture == <<"F", "u", "r", "n", "i", "t", "u", "r", "e">>

\* Values of "name": absent, empty, text with surrounding blanks, a number.
Names == {None, Str(<<>>), Str(Pen), Num(700)}

\* Values of "price": absent, empty, no number, numeric text, numbers.
Prices == {None, Str(<<>>), Str(<<"a", "b", "c">>), Str(<<"1", ".", "5">>),
           Str(<<"-", "5">>), Num(150), Num(0)}

\* Values of "category": absent, empty, blank, text, a number.
Categories == {None, Str(<<>>), Str(<<" ">>), Str(Furniture), Num(700)}

\* A body create_item accepts: name, numeric price and category.
BaseName == Str(Pen)

BasePrice == Str(<<"1", ".", "5">>)

BaseCategory == Str(Furniture)

\* The mappings of the bodies: at most one key departs from the accepted
\* body, or all three do.
PostMappings ==
    {Mapping(n, BasePrice, BaseCategory) : n \in Names}
    \cup {Mapping(BaseName, p, BaseCategory) : p \in Prices}
    \cup {Mapping(BaseName, BasePrice, c) : c \in Categories}
    \cup {Mapping(Str(<<>>), Str(<<"-", "5">>), Str(<<" ">>)),
          Mapping(Str(<<>>), Str(<<"a", "b", "c">>), Str(<<" ">>))}

\* JSON objects, a JSON array, an empty body and form-encoded bodies.
PostBodies ==
    {[json |-> JsonObject(m), form |-> EmptyMapping] : m \in PostMappings}
    \cup {[json |-> JsonArray, form |-> EmptyMapping],
          [json |-> NoJson, form |-> EmptyMapping],
          [json |-> NoJson, form |-> Mapping(BaseName, BasePrice, BaseCategory)],
          [json |-> NoJson,
           form |-> Mapping(BaseName, Str(<<"a", "b", "c">>), BaseCategory)]}

\* Values of the query parameter min.
Mins == {None, Str(<<"a", "b", "c">>), Str(<<"1", "0", "0">>), Str(<<"1", ".", "5">>)}

\* Values of the query parameter category.
SearchCategories ==
    {None, Str(<<>>), Str(Furniture), Str(lower(Furniture)),
     Str(<<"s", "t", "a", "t", "i", "o", "n", "e", "r", "y">>)}

\* Values random.uniform(0, 15), rounded to 2 places, may take.
Discounts == {0, 750, 1000, MaxDiscount}

\* The bodies, parameters and discounts of SpecQuotes.
QuotePostBodies ==
    {[json |-> JsonObject(Mapping(BaseName, BasePrice, BaseCategory)),
      form |-> EmptyMapping],
     [json |-> JsonObject(Mapping(BaseName, Str(<<"a", "b", "c">>), BaseCategory)),
      form |-> EmptyMapping]}

QuoteMins == {Str(<<"a", "b", "c">>)}

QuoteSearches ==
    {[min |-> Str(<<"1", "0", "0">>), category |-> Str(Furniture)]}

\* One value: the value drawn has no part in the scheduling of the tasks.
QuoteDiscounts == {1200}

\* The items SpecPricing prices: the seed items, and items POST /items can create.
PricingItems ==
    {SeedInventory[k] : k \in 1..Len(Seed)}
    \cup {Item(strip(Pen), price, category, FirstId + Len(Seed)) :
            price \in {0, 150, 325, 0 - 500},
            category \in {<<>>, Furniture, <<"t", "o", "y", "s">>,
                          <<"E", "L", "E", "C", "T", "R", "O", "N", "I", "C", "S">>}}

-----------------------------------------------------------------------------
(* Specifications.                                                         *)

Init ==
    /\ items = SeedInventory
    /\ id_seq = FirstId + Len(Seed)
    /\ request = Get("none", None, None)
    /\ response = NoResponse
    /\ qpc = "idle"
    /\ qItems = <<>>
    /\ qTax = <<>>
    /\ qDisc = <<>>
    /\ qRec = <<>>

Created == Len(items) - Len(Seed)

GetExpensive == \E min \in Mins : get_expensive(min)

SearchItems == \E min \in Mins, category \in SearchCategories : search_items(min, category)

CreateItem ==
    \E b \in PostBodies :
        /\ CreateOutcome(b.json, b.form) = "created" => Created < MaxCreated
        /\ create_item(b.json, b.form)

\* The synchronous routes.
Next == index \/ get_items \/ GetExpensive \/ SearchItems \/ CreateItem

Spec == Init /\ [][Next]_vars

QuoteCreateItem ==
    \E b \in QuotePostBodies :
        /\ CreateOutcome(b.json, b.form) = "created" => Created < MaxQuoteCreated
        /\ create_item(b.json, b.form)

TaxRateReturns == \E k \in 1..Len(qItems) : tax_rate_returns(k)

DynamicDiscountReturns ==
    \E k \in 1..Len(qItems), d \in QuoteDiscounts : dynamic_discount_returns(k, d)

AdjustedPriceReturns == \E k \in 1..Len(qItems) : adjusted_price_returns(k)

QuoteGetExpensive == qpc = "idle" /\ \E min \in QuoteMins : get_expensive(min)

QuoteSearchItems ==
    qpc = "idle" /\ \E q \in QuoteSearches : search_items(q.min, q.category)

\* The routes that only read are served between two GET /async/quotes: they
\* neither read nor write what the tasks of a request in flight use.
QuoteIndex == qpc = "idle" /\ index

QuoteGetItems == qpc = "idle" /\ get_items

\* Every route; POST /items is served while GET /async/quotes is in flight.
NextQuotes ==
    \/ async_quotes_start
    \/ TaxRateReturns
    \/ DynamicDiscountReturns
    \/ AdjustedPriceReturns
    \/ async_quotes_returns
    \/ QuoteIndex
    \/ QuoteGetItems
    \/ QuoteGetExpensive
    \/ QuoteSearchItems
    \/ QuoteCreateItem

SpecQuotes == Init /\ [][NextQuotes]_vars

\* compute_adjusted_price called on one item.
InitPricing ==
    /\ items = SeedInventory
    /\ id_seq = FirstId + Len(Seed)
    /\ request = Get("GET /async/quotes", None, None)
    /\ response = NoResponse
    /\ qpc = "running"
    /\ \E i \in PricingItems : qItems = <<i>>
    /\ qTax = <<(<<>>)>>
    /\ qDisc = <<(<<>>)>>
    /\ qRec = <<(<<>>)>>

PricingDiscountReturns ==
    \E k \in 1..Len(qItems), d \in Discounts : dynamic_discount_returns(k, d)

NextPricing ==
    \/ TaxRateReturns
    \/ PricingDiscountReturns
    \/ AdjustedPriceReturns
    \/ async_quotes_returns

SpecPricing == InitPricing /\ [][NextPricing]_vars

-----------------------------------------------------------------------------
(* Properties of the synchronous routes, under Spec.                       *)

\* The mapping create_item reads its keys from.
Data(req) == IF JsonTruthy(req.json) THEN req.json.map ELSE req.form

\* The request just handled is a POST /items whose body is a mapping.
PostOfMapping(req) ==
    /\ req.route = "POST /items"
    /\ JsonTruthy(req.json) => req.json.t = "object"

MissingOrEmpty(v) == v.t = "none" \/ (v.t = "str" /\ v.s = <<>>)

\* Text that is there and not empty.
PresentText(v) == v.t = "str" /\ v.s # <<>>

\* A number, or text that denotes one.
NumericValue(v) == v.t = "num" \/ (v.t = "str" /\ IsDecimal(v.s))

\* Two texts equal up to the case of their letters.
SameIgnoringCase(a, b) ==
    /\ Len(a) = Len(b)
    /\ \A k \in 1..Len(a) :
          \/ a[k] = b[k]
          \/ \E m \in 1..Len(Upper) : {a[k], b[k]} = {Upper[m], Lower[m]}

\* C1: item ids are pairwise distinct and strictly increasing in creation
\* order: the five seed items hold ids 1..5 in seed order, the k-th created
\* item holds id 5+k, and the next id to be assigned is always one more than
\* the number of items, so that no request, accepted or rejected, skips or
\* reuses an id.
C1_IdsFollowCreationOrder ==
    /\ \A k \in 1..Len(items) : items[k].id = k
    /\ \A k \in 1..Len(Seed) :
          /\ items[k].name = Seed[k].name
          /\ items[k].price = Seed[k].price
          /\ items[k].category = Seed[k].category
    /\ \A j, k \in 1..Len(items) : j < k => items[j].id < items[k].id
    /\ id_seq = Len(items) + 1

\* Two items were created and a request was rejected after them.
C1_Witness ==
    /\ Len(items) = Len(Seed) + 2
    /\ items[Len(Seed) + 2].id = 7
    /\ request.route = "POST /items"
    /\ response.status = 400

\* C2: a POST /items whose name, price or category is missing or empty is
\* answered 400 "Invalid payload. Expect name, price, category" and adds no
\* item.
C2_MissingOrEmptyRejected ==
    [][(/\ PostOfMapping(request')
        /\ \/ MissingOrEmpty(Data(request').name)
           \/ MissingOrEmpty(Data(request').price)
           \/ MissingOrEmpty(Data(request').category))
       => (/\ response'.status = 400
           /\ response'.error = InvalidPayload
           /\ items' = items)]_vars

\* C3: every item of the inventory has a non-empty name without surrounding
\* whitespace, a non-negative price and a non-empty category.
C3_ItemsWellFormed ==
    \A k \in 1..Len(items) :
        /\ items[k].name # <<>>
        /\ items[k].name[1] \notin Whitespace
        /\ items[k].name[Len(items[k].name)] \notin Whitespace
        /\ items[k].price >= 0
        /\ items[k].category # <<>>

\* C4: a min that is no number, on GET /items/expensive and on
\* GET /items/search, is answered 200 with a list of items.
C4_MalformedMinFallsBack ==
    [][(/\ request'.route \in {"GET /items/expensive", "GET /items/search"}
        /\ request'.min.t = "str"
        /\ ~IsDecimal(request'.min.s))
       => (response'.status = 200 /\ response'.kind = "list")]_vars

\* C5: a POST /items with a name, a category and a numeric price (a number
\* or numeric text) is answered 201 with the created item, whose price is
\* the number given; the item is appended to the inventory and the items
\* already there keep their places and their fields.
C5_ValidPostAppends ==
    [][(/\ PostOfMapping(request')
        /\ PresentText(Data(request').name)
        /\ PresentText(Data(request').category)
        /\ NumericValue(Data(request').price))
       => (/\ response'.status = 201
           /\ Len(response'.items) = 1
           /\ response'.items[1].price = Float(Data(request').price)
           /\ Len(items') = Len(items) + 1
           /\ SubSeq(items', 1, Len(items)) = items
           /\ to_dict(items'[Len(items')]) = response'.items[1])]_vars

\* C6: a POST /items with a name, a category and a non-empty price that is
\* no number is answered 400 "Price must be a number"; the inventory and
\* the next id are as before.
C6_NonNumericPriceRejected ==
    [][(/\ PostOfMapping(request')
        /\ PresentText(Data(request').name)
        /\ PresentText(Data(request').category)
        /\ PresentText(Data(request').price)
        /\ ~IsDecimal(Data(request').price.s))
       => (/\ response'.status = 400
           /\ response'.error = PriceNotNumber
           /\ items' = items
           /\ id_seq' = id_seq)]_vars

\* A price that is no number was rejected after an item had been created.
C6_Witness ==
    /\ PostOfMapping(request)
    /\ PresentText(Data(request).name)
    /\ PresentText(Data(request).category)
    /\ Data(request).price = Str(<<"a", "b", "c">>)
    /\ response.status = 400
    /\ response.error = PriceNotNumber
    /\ Len(items) = Len(Seed) + 1

\* An item satisfies the predicates a search supplies.
Matches(i, min, category) ==
    /\ min.t # "none" => i.price >= DecimalVal(min.s)
    /\ category.t # "none" => SameIgnoringCase(i.category, category.s)

\* The number of items among the first k that a search selects.
Rank(its, k, min, category) ==
    Cardinality({m \in 1..k : Matches(its[m], min, category)})

\* C9: GET /items/search, and filter_items under it, returns exactly the
\* items that satisfy every supplied predicate (price >= min, category equal
\* ignoring case), in the order of the inventory; all of them when neither
\* is supplied.
C9_FilterExact ==
    [][(/\ request'.route = "GET /items/search"
        /\ request'.min.t = "str" => IsDecimal(request'.min.s))
       => /\ response'.status = 200
          /\ Len(response'.items)
                = Rank(items, Len(items), request'.min, request'.category)
          /\ \A k \in 1..Len(items) :
                Matches(items[k], request'.min, request'.category)
                => response'.items[Rank(items, k, request'.min, request'.category)]
                      = to_dict(items[k])
          /\ (request'.min.t = "none" /\ request'.category.t = "none")
                => response'.items = items]_vars

\* A search by category and price selected an item whose category is written
\* in another case, and left other items out.
C9_Witness ==
    /\ request.route = "GET /items/search"
    /\ request.category = Str(lower(Furniture))
    /\ request.min = Str(<<"1", ".", "5">>)
    /\ response.status = 200
    /\ \E j \in 1..Len(response.items) : response.items[j].category = Furniture
    /\ Len(response.items) < Len(items)

-----------------------------------------------------------------------------
(* Properties of GET /async/quotes, under SpecQuotes and SpecPricing.      *)

\* C7: GET /async/quotes answers with one record per item of the inventory
\* as it was when the request started, the i-th record for the i-th item,
\* whatever the order in which the tasks and their lookups finish; a task
\* has its record only when both its lookups have returned.
C7_QuotesFollowSnapshot ==
    [][/\ (qpc = "idle" /\ qpc' = "running") => qItems' = items
       /\ (qpc = "running" /\ qpc' = "running") => qItems' = qItems
       /\ (qpc = "running" /\ qpc' = "idle") =>
             /\ response'.status = 200
             /\ Len(response'.quotes) = Len(qItems)
             /\ \A k \in 1..Len(qItems) : response'.quotes[k].item = qItems[k]
       /\ \A k \in 1..Len(qRec') :
             qRec'[k] # <<>> => (qTax'[k] # <<>> /\ qDisc'[k] # <<>>)]_vars

\* The answer was given after an item had been created while the request was
\* in flight: it has a record for each of the five items of the snapshot.
C7_Witness ==
    /\ request.route = "GET /async/quotes"
    /\ response.kind = "quotes"
    /\ Len(response.quotes) = Len(Seed)
    /\ Len(items) = Len(Seed) + 1
    /\ \A k \in 1..Len(Seed) : response.quotes[k].item.id = k

\* The rate of the table for a category, any other category having 0.07.
TableRate(category) ==
    IF SameIgnoringCase(category, <<"e", "l", "e", "c", "t", "r", "o", "n", "i", "c", "s">>)
    THEN 13
    ELSE IF SameIgnoringCase(category, <<"f", "u", "r", "n", "i", "t", "u", "r", "e">>)
    THEN 8
    ELSE IF SameIgnoringCase(category, <<"s", "t", "a", "t", "i", "o", "n", "e", "r", "y">>)
    THEN 5
    ELSE 7

\* n / d is within half a unit of x: x is n / d rounded.
IsRounded(x, n, d) == 2 * (x * d - n) <= d /\ 2 * (n - x * d) <= d

\* What C8 asks of one record.
QuoteRecordRight(r) ==
    LET pct == IF r.discount_percent < 0 THEN 0
               ELSE IF r.discount_percent > 10000 THEN 10000
               ELSE r.discount_percent
        lo  == IF r.item.price < 0 THEN r.item.price ELSE 0
        hi  == IF r.item.price > 0 THEN r.item.price ELSE 0
    IN  /\ r.tax_rate = TableRate(r.item.category)
        /\ r.discount_percent >= 0
        /\ r.discount_percent <= 1500
        /\ \E discounted \in lo - 1 .. hi + 1 :
              /\ IsRounded(discounted, r.item.price * (10000 - pct), 10000)
              /\ IsRounded(r.final_price, discounted * (100 + r.tax_rate), 100)

\* C8: in every record of GET /async/quotes the tax rate is the rate of the
\* item's category, looked up ignoring case (0.07 for a category not in the
\* table), the discount lies in [0, 15], and the final price is
\* apply_discount(price, discount) * (1 + rate) rounded to 2 places, where
\* apply_discount is price * (1 - percent / 100) rounded to 2 places with
\* the percent clamped into [0, 100].
C8_QuoteRecordsRight ==
    /\ \A k \in 1..Len(qRec) : qRec[k] # <<>> => QuoteRecordRight(qRec[k][1])
    /\ \A k \in 1..Len(response.quotes) : QuoteRecordRight(response.quotes[k])

\* A record for a category written in another case than the table's, with a
\* discount that changes the price.
C8_Witness ==
    /\ response.kind = "quotes"
    /\ Len(response.quotes) = 1
    /\ response.quotes[1].item.category = Furniture
    /\ response.quotes[1].tax_rate = 8
    /\ response.quotes[1].discount_percent = 1000
    /\ response.quotes[1].final_price = 146

\* C10: only create_item changes the inventory and the next id: a step of
\* any other route, and of the tasks of GET /async/quotes, leaves the item
\* sequence, the fields of every item and the next id as they were.
C10_OnlyCreateItemWrites ==
    [][\/ \E b \in QuotePostBodies : create_item(b.json, b.form)
       \/ UNCHANGED <<items, id_seq>>]_vars

\* Reading routes were served after an item had been created: the item is
\* listed, and the next id is the one after its id.
C10_Witness ==
    /\ request.route = "GET /items/expensive"
    /\ response.status = 200
    /\ Len(items) = Len(Seed) + 1
    /\ id_seq = Len(items) + 1
    /\ Len(response.items) = 2

====
